---- MODULE Spec2Model ----
(***************************************************************************)
(* A model of the voice-agent relay.                                       *)
(*                                                                         *)
(*  - backend/src/index.ts: the relay between the downstream (browser)     *)
(*    sockets and the one upstream socket, with the voice-activity         *)
(*    segmentation of the inbound audio and the speech-to-text hand-off;   *)
(*  - src/lib/multimodal-live-client.ts: MultimodalLiveClient, the         *)
(*    event-emitting upstream client.                                      *)
(*                                                                         *)
(* The two are separate programs.  A behaviour is an execution of one of   *)
(* them: the variable `program` says which.                                *)
(***************************************************************************)
EXTENDS Integers, Sequences, FiniteSets, TLC

\* ------------------------------------------------------------ constants
\* index.ts:87-88
MIN_SILENCE_FRAMES == 10
MIN_VOICE_FRAMES == 5

\* ------------------------------------------------------------ bounds
\* Chunks that arrive in a run of the concurrent relay.
MaxFrames == 12
\* Voiced chunks among them.
MaxVoiced == 1
\* Chunks sent by connections other than the first.
MaxOtherFrames == 1
\* Messages that carry more than one chunk.
MaxBatches == 1
\* Frames fed in a run of the sequential relay.
SeqMaxFrames == 17

\* Sockets a MultimodalLiveClient creates in a run (its connect calls).
MaxSockets == 2
\* Send calls on a MultimodalLiveClient in a run.
MaxSends == 2
\* Parts in the modelTurn of a server message.
MaxParts == 2
\* Messages the upstream socket delivers to the relay in a run.
MaxUpMessages == 2
\* connectMicrophone calls started in a run, those of updateMicrophoneDevice
\* included.
MaxMicCalls == 3

Conns == {1, 2}
PcmKinds == {"voiced", "silent"}
SkipKinds == {"invalid", "nonpcm", "undecodable"}

VARIABLES
    program,      \* "relay" | "client" | "receive" | "mic": the program this behaviour runs
    \* ---- backend/src/index.ts
    upState,      \* clientWs.readyState: "CONNECTING" | "OPEN" | "CLOSED"
    upSent,       \* frames transmitted on clientWs, in order
    connState,    \* per downstream connection: "none" | "open" | "closed"
    serverWs,     \* the module-level serverWs: 0 (unset) or a connection
    audioState,   \* the module-level audioState
    pending,      \* message handlers suspended in await processSpeechToText
    utterances,   \* the buffers handed to speechClient.recognize, in order
    downSent,     \* per downstream connection, the messages sent to it
    ingested,     \* the frames the VAD classified, in the order it did
    nextId,       \* chunks arrived so far (a chunk's id is its arrival rank)
    nVoiced, nOther, nBatches,   \* how much of each bound is used
    upLast,       \* the last message that arrived on clientWs, and its rank
    nUp,          \* messages that arrived on clientWs so far
    \* ---- src/lib/multimodal-live-client.ts
    cws,          \* this.ws: 0 (null) or a socket
    config,       \* this.config: 0 (null) or a config
    socks,        \* the sockets connect created: readyState and listeners
    sentOn,       \* per socket, the frames transmitted on it, in order
    sendResult,   \* the send call of the last step: "none" | "ok" | "error"
    disconnected, \* the disconnect call of the last step: its argument and result
    nSock, nSends,   \* sockets created and send calls made so far
    inbox,        \* the decoded server message receive is called with
    received,     \* receive has run on inbox
    events,       \* the events the last step emitted, in order
    \* ---- LiveAudioInputManager (live-media-manager.js)
    deviceId,     \* this.deviceId: 0 (null) or a device
    audioContext, \* this.audioContext: 0 (undefined) or an AudioContext
    processor,    \* this.processor: 0 (false) or a script processor
    interval,     \* this.interval: 0 (null) or a timer
    procs,        \* the script processors created: context, device, connected
    closedCtx,    \* the AudioContexts that were closed
    timers,       \* the interval timers that were set and not cleared
    awaiting,     \* connectMicrophone calls awaiting getUserMedia
    nMic          \* connectMicrophone calls started so far

relayVars == <<upState, upSent, connState, serverWs, audioState, pending,
               utterances, downSent, ingested, nextId,
               nVoiced, nOther, nBatches>>

clientVars == <<cws, config, socks, sentOn, sendResult, disconnected, nSock, nSends>>

receiveVars == <<inbox, received>>

downVars == <<upLast, nUp>>

micVars == <<deviceId, audioContext, processor, interval, procs, closedCtx,
             timers, awaiting, nMic>>

vars == <<program, relayVars, downVars, clientVars, receiveVars, events, micVars>>

notRelay == <<program, downVars, clientVars, receiveVars, events, micVars>>
notClient == <<program, relayVars, downVars, receiveVars, micVars>>
notMic == <<program, relayVars, downVars, clientVars, receiveVars, events>>

\* ------------------------------------------------------------ the VAD

\* index.ts:79-83, and what resetAudioState (107-111) assigns
ResetState == [isRecording |-> FALSE, buffer |-> <<>>, silenceCount |-> 0]

resetAudioState_keepCount(st) ==
    [isRecording |-> FALSE, buffer |-> <<>>, silenceCount |-> st.silenceCount]

resetAudioState(st) == ResetState

\* index.ts:348-349: the flush decision after a silent frame was pushed
ShouldFlush(st) == st.silenceCount >= MIN_SILENCE_FRAMES
LongEnough(st) == Len(st.buffer) > MIN_VOICE_FRAMES

\* index.ts:332-346: one classified frame, up to the flush decision
Push_buffersLeadingSilence(st, ch) ==
    IF ch.kind = "voiced"
    THEN [isRecording |-> TRUE, buffer |-> Append(st.buffer, ch), silenceCount |-> 0]
    ELSE [st EXCEPT !.silenceCount = @ + 1, !.buffer = Append(@, ch)]

Push_voicedKeepsSilenceCount(st, ch) ==
    IF ch.kind = "voiced"
    THEN [st EXCEPT !.isRecording = TRUE, !.buffer = Append(@, ch)]
    ELSE IF st.isRecording
         THEN [st EXCEPT !.silenceCount = @ + 1, !.buffer = Append(@, ch)]
         ELSE st

Push(st, ch) ==
    IF ch.kind = "voiced"
    THEN [isRecording |-> TRUE, buffer |-> Append(st.buffer, ch), silenceCount |-> 0]
    ELSE IF st.isRecording
         THEN [st EXCEPT !.silenceCount = @ + 1, !.buffer = Append(@, ch)]
         ELSE st

\* index.ts:311-364: the chunk loop, from audioState st over chunks, run until
\* it ends or suspends in await processSpeechToText.  The result holds the
\* audioState it leaves, the buffer it handed to speech-to-text (if it
\* suspended), the chunks still to be looped over after the await, and the
\* frames it classified.
RECURSIVE RunChunks_skipAbortsBatch(_, _, _)
RunChunks_skipAbortsBatch(st, chunks, ing) ==
    IF chunks = <<>>
    THEN [st |-> st, emitted |-> <<>>, rest |-> <<>>, ing |-> ing, suspended |-> FALSE]
    ELSE LET ch == Head(chunks)
             tl == Tail(chunks)
         IN IF ch.kind \in SkipKinds
            THEN [st |-> st, emitted |-> <<>>, rest |-> <<>>, ing |-> ing,
                  suspended |-> FALSE]
            ELSE LET st1 == Push(st, ch)
                     ing1 == Append(ing, ch)
                 IN IF ch.kind = "silent" /\ st.isRecording /\ ShouldFlush(st1)
                    THEN IF LongEnough(st1)
                         THEN [st |-> st1, emitted |-> <<st1.buffer>>, rest |-> tl,
                               ing |-> ing1, suspended |-> TRUE]
                         ELSE RunChunks_skipAbortsBatch(resetAudioState(st1), tl, ing1)
                    ELSE RunChunks_skipAbortsBatch(st1, tl, ing1)

RECURSIVE RunChunks(_, _, _)
RunChunks(st, chunks, ing) ==
    IF chunks = <<>>
    THEN [st |-> st, emitted |-> <<>>, rest |-> <<>>, ing |-> ing, suspended |-> FALSE]
    ELSE LET ch == Head(chunks)
             tl == Tail(chunks)
         IN IF ch.kind \in SkipKinds
            THEN RunChunks(st, tl, ing)
            ELSE LET st1 == Push(st, ch)
                     ing1 == Append(ing, ch)
                 IN IF ch.kind = "silent" /\ st.isRecording /\ ShouldFlush(st1)
                    THEN IF LongEnough(st1)
                         THEN [st |-> st1, emitted |-> <<st1.buffer>>, rest |-> tl,
                               ing |-> ing1, suspended |-> TRUE]
                         ELSE RunChunks(resetAudioState(st1), tl, ing1)
                    ELSE RunChunks(st1, tl, ing1)

\* ------------------------------------------------------------ the relay

RelayInit ==
    /\ upState = "CONNECTING"
    /\ upSent = <<>>
    /\ connState = [c \in Conns |-> "none"]
    /\ serverWs = 0
    /\ audioState = ResetState
    /\ pending = {}
    /\ utterances = <<>>
    /\ downSent = [c \in Conns |-> <<>>]
    /\ ingested = <<>>
    /\ nextId = 0
    /\ nVoiced = 0 /\ nOther = 0 /\ nBatches = 0

\* index.ts:414-446: clientWs.on("open") sends the setup message
SetupFrame == [type |-> "setup"]
OnUpstreamOpen_noSetup(sent) == sent
OnUpstreamOpen(sent) == Append(sent, SetupFrame)

UpstreamOpen ==
    /\ program = "relay"
    /\ upState = "CONNECTING"
    /\ upState' = "OPEN"
    /\ upSent' = OnUpstreamOpen(upSent)
    /\ UNCHANGED <<notRelay, connState, serverWs, audioState, pending, utterances,
                   downSent, ingested, nextId, nVoiced, nOther, nBatches>>

\* index.ts:478-485: the upstream socket closes (after an error or not);
\* the handler calls clientWs.close() on the closed socket and logs
UpstreamClose ==
    /\ program = "relay"
    /\ upState \in {"CONNECTING", "OPEN"}
    /\ upState' = "CLOSED"
    /\ UNCHANGED <<notRelay, upSent, connState, serverWs, audioState, pending,
                   utterances, downSent, ingested, nextId,
                   nVoiced, nOther, nBatches>>

\* index.ts:271-293: a browser connects; the upgrade assigns the module-level
\* serverWs and registers the handlers on it
ConnOpen(c) ==
    /\ program = "relay"
    /\ connState[c] = "none"
    /\ \A d \in Conns : d < c => connState[d] # "none"
    /\ connState' = [connState EXCEPT ![c] = "open"]
    /\ serverWs' = c
    /\ UNCHANGED <<notRelay, upState, upSent, audioState, pending, utterances,
                   downSent, ingested, nextId, nVoiced, nOther, nBatches>>

\* index.ts:368-379 and 489-495: a downstream socket closes; onClose logs
ConnClose(c) ==
    /\ program = "relay"
    /\ connState[c] = "open"
    /\ connState' = [connState EXCEPT ![c] = "closed"]
    /\ UNCHANGED <<notRelay, upState, upSent, serverWs, audioState, pending,
                   utterances, downSent, ingested, nextId,
                   nVoiced, nOther, nBatches>>

Count(kinds, S) == Cardinality({i \in 1..Len(kinds) : kinds[i] \in S})

Chunks(c, kinds) ==
    [i \in 1..Len(kinds) |-> [id |-> nextId + i, conn |-> c, kind |-> kinds[i]]]

\* index.ts:302-308: the forward.  ws.send throws on a CONNECTING socket,
\* transmits on an OPEN one and drops the data on a closed one.
Forward(c, chunks) ==
    IF upState = "OPEN"
    THEN Append(upSent, [type |-> "realtimeInput", conn |-> c, chunks |-> chunks])
    ELSE upSent

\* index.ts:295-366: serverWs.on("message"), from the arrival of a message of
\* connection c to the end of its handler or its suspension in
\* await processSpeechToText
ServerMessage(c, kinds) ==
    /\ program = "relay"
    /\ connState[c] = "open"
    /\ nextId' = nextId + Len(kinds)
    /\ nVoiced' = nVoiced + Count(kinds, {"voiced"})
    /\ nOther' = nOther + (IF c = 1 THEN 0 ELSE Len(kinds))
    /\ nBatches' = nBatches + (IF Len(kinds) > 1 THEN 1 ELSE 0)
    /\ upSent' = Forward(c, Chunks(c, kinds))
    /\ IF upState = "CONNECTING"
       THEN \* clientWs.send threw: the handler's promise is rejected
            UNCHANGED <<audioState, pending, utterances, ingested>>
       ELSE LET r == RunChunks(audioState, Chunks(c, kinds), <<>>)
            IN /\ audioState' = r.st
               /\ utterances' = utterances \o r.emitted
               /\ ingested' = ingested \o r.ing
               /\ pending' = IF r.suspended
                             THEN pending \cup {[utt |-> Len(utterances) + 1, rest |-> r.rest]}
                             ELSE pending
    /\ UNCHANGED <<notRelay, upState, connState, serverWs, downSent>>

\* index.ts:130-143 and 353-358: speechClient.recognize settles for the
\* suspended handler h.  A non-empty transcription is sent on the module-level
\* serverWs; then the handler resets audioState and loops over its remaining
\* chunks.
Transcription(h) == [type |-> "transcription", utt |-> h.utt]

SttDone(h, hasText) ==
    /\ program = "relay"
    /\ h \in pending
    /\ downSent' = IF hasText /\ connState[serverWs] = "open"
                   THEN [downSent EXCEPT ![serverWs] = Append(@, Transcription(h))]
                   ELSE downSent
    /\ LET r == RunChunks(resetAudioState(audioState), h.rest, <<>>)
       IN /\ audioState' = r.st
          /\ utterances' = utterances \o r.emitted
          /\ ingested' = ingested \o r.ing
          /\ pending' = (pending \ {h}) \cup
                        (IF r.suspended
                         THEN {[utt |-> Len(utterances) + 1, rest |-> r.rest]}
                         ELSE {})
    /\ UNCHANGED <<notRelay, upState, upSent, connState, serverWs, nextId,
                   nVoiced, nOther, nBatches>>

\* ------------------------------------------------------------ MultimodalLiveClient

Sockets == 1..MaxSockets
Configs == {0, 1}
NoSocket == [state |-> "none", onError |-> FALSE, onClose |-> FALSE, closeCalled |-> FALSE]
\* No disconnect call was made in the step.
NoDisconnect == [called |-> FALSE, ws |-> 0, result |-> FALSE]
Disconnected(ws, result) == [called |-> TRUE, ws |-> ws, result |-> result]

\* multimodal-live-client.ts:57-59
ClientInit ==
    /\ cws = 0
    /\ config = 0
    /\ socks = [s \in Sockets |-> NoSocket]
    /\ sentOn = [s \in Sockets |-> <<>>]
    /\ sendResult = "none"
    /\ disconnected = NoDisconnect
    /\ nSock = 0
    /\ nSends = 0

\* WebSocket.close() as the client calls it: an open socket starts closing
CloseSocket(sk, s) ==
    [sk EXCEPT ![s] = [@ EXCEPT !.closeCalled = TRUE,
                                !.state = IF @ = "OPEN" THEN "CLOSING" ELSE @]]

\* multimodal-live-client.ts:145-155: disconnect(ws), ws = 0 for no argument.
\* The result holds this.ws, the sockets and the value returned.
disconnect_keepRef(cw, sk, ws) ==
    IF (ws = 0 \/ cw = ws) /\ cw # 0
    THEN [cws |-> cw, socks |-> CloseSocket(sk, cw), result |-> TRUE]
    ELSE [cws |-> cw, socks |-> sk, result |-> FALSE]

disconnect_ignoresArgument(cw, sk, ws) ==
    IF cw # 0
    THEN [cws |-> 0, socks |-> CloseSocket(sk, cw), result |-> TRUE]
    ELSE [cws |-> cw, socks |-> sk, result |-> FALSE]

disconnect(cw, sk, ws) ==
    IF (ws = 0 \/ cw = ws) /\ cw # 0
    THEN [cws |-> 0, socks |-> CloseSocket(sk, cw), result |-> TRUE]
    ELSE [cws |-> cw, socks |-> sk, result |-> FALSE]

\* multimodal-live-client.ts:281-287: _sendDirect on this.ws = cw.  It throws
\* without a socket; WebSocket.send throws on a CONNECTING socket, transmits
\* on an OPEN one and drops the data on a closing or closed one.
SendDirect(cw, sk, sent, frame) ==
    IF cw = 0 \/ sk[cw].state = "CONNECTING"
    THEN [sent |-> sent, result |-> "error"]
    ELSE IF sk[cw].state = "OPEN"
         THEN [sent |-> [sent EXCEPT ![cw] = Append(@, frame)], result |-> "ok"]
         ELSE [sent |-> sent, result |-> "ok"]

Ev(type, payload) == [type |-> type, payload |-> payload]

\* multimodal-live-client.ts:83-102: connect(config) up to the promise it
\* returns: a new socket with the message and error listeners
ClientConnect(cfg) ==
    /\ program = "client"
    /\ nSock < MaxSockets
    /\ nSock' = nSock + 1
    /\ config' = cfg
    /\ socks' = [socks EXCEPT ![nSock + 1] =
                    [state |-> "CONNECTING", onError |-> TRUE,
                     onClose |-> FALSE, closeCalled |-> FALSE]]
    /\ sendResult' = "none"
    /\ disconnected' = NoDisconnect
    /\ events' = <<>>
    /\ UNCHANGED <<notClient, cws, sentOn, nSends>>

\* multimodal-live-client.ts:103-141: the open event of socket s
OnOpen(s) ==
    IF config = 0
    THEN [cws |-> cws, sent |-> sentOn, events |-> <<>>,
          onError |-> socks[s].onError, onClose |-> socks[s].onClose]
    ELSE [cws |-> s,
          sent |-> SendDirect(s, [socks EXCEPT ![s].state = "OPEN"], sentOn, "setup").sent,
          events |-> <<Ev("open", <<>>)>>,
          onError |-> FALSE, onClose |-> TRUE]

SocketOpen(s) ==
    /\ program = "client"
    /\ socks[s].state = "CONNECTING"
    /\ LET r == OnOpen(s)
       IN /\ cws' = r.cws
          /\ sentOn' = r.sent
          /\ events' = r.events
          /\ socks' = [socks EXCEPT ![s] = [@ EXCEPT !.state = "OPEN",
                                                     !.onError = r.onError,
                                                     !.onClose = r.onClose]]
    /\ sendResult' = "none"
    /\ disconnected' = NoDisconnect
    /\ UNCHANGED <<notClient, config, nSock, nSends>>

\* The server starts the closing handshake on socket s: readyState becomes
\* CLOSING and no event fires yet.
SocketClosing(s) ==
    /\ program = "client"
    /\ socks[s].state = "OPEN"
    /\ socks' = [socks EXCEPT ![s].state = "CLOSING"]
    /\ sendResult' = "none"
    /\ disconnected' = NoDisconnect
    /\ events' = <<>>
    /\ UNCHANGED <<notClient, cws, config, sentOn, nSock, nSends>>

\* Socket s is closed, after a failure (failed) or not: the error event (96-101)
\* if it failed, then the close event (120-139), each to the listeners s has.
SocketClosed(s, failed) ==
    /\ program = "client"
    /\ socks[s].state \in {"CONNECTING", "OPEN", "CLOSING"}
    /\ socks[s].state = "CONNECTING" => failed
    /\ LET sk0 == [socks EXCEPT ![s].state = "CLOSED"]
           r1 == IF failed /\ socks[s].onError
                 THEN disconnect(cws, sk0, s)
                 ELSE [cws |-> cws, socks |-> sk0, result |-> FALSE]
           r2 == IF socks[s].onClose
                 THEN disconnect(r1.cws, r1.socks, s)
                 ELSE r1
       IN /\ cws' = r2.cws
          /\ socks' = r2.socks
          /\ events' = IF socks[s].onClose THEN <<Ev("close", <<>>)>> ELSE <<>>
          /\ disconnected' = IF socks[s].onClose THEN Disconnected(s, r2.result)
                             ELSE IF failed /\ socks[s].onError
                                  THEN Disconnected(s, r1.result)
                                  ELSE NoDisconnect
    /\ sendResult' = "none"
    /\ UNCHANGED <<notClient, config, sentOn, nSock, nSends>>

\* multimodal-live-client.ts:145-155: disconnect() without an argument
ClientDisconnect ==
    /\ program = "client"
    /\ LET r == disconnect(cws, socks, 0)
       IN /\ cws' = r.cws
          /\ socks' = r.socks
          /\ disconnected' = Disconnected(0, r.result)
    /\ sendResult' = "none"
    /\ events' = <<>>
    /\ UNCHANGED <<notClient, config, sentOn, nSock, nSends>>

\* multimodal-live-client.ts:228-276: sendRealtimeInput, sendToolResponse and
\* send each build their envelope and hand it to _sendDirect
SendCall(frame) ==
    /\ program = "client"
    /\ nSends < MaxSends
    /\ nSends' = nSends + 1
    /\ LET r == SendDirect(cws, socks, sentOn, frame)
       IN /\ sentOn' = r.sent
          /\ sendResult' = r.result
    /\ disconnected' = NoDisconnect
    /\ events' = <<>>
    /\ UNCHANGED <<notClient, cws, config, socks, nSock>>

sendRealtimeInput == SendCall("realtimeInput")
sendToolResponse == SendCall("toolResponse")
send == SendCall("clientContent")

ClientNext ==
    \/ \E cfg \in Configs : ClientConnect(cfg)
    \/ \E s \in Sockets : SocketOpen(s)
    \/ \E s \in Sockets : SocketClosing(s)
    \/ \E s \in Sockets : \E failed \in BOOLEAN : SocketClosed(s, failed)
    \/ ClientDisconnect
    \/ sendRealtimeInput
    \/ sendToolResponse
    \/ send

\* ------------------------------------------------------------ receive

\* A decoded server message, by the keys the guards look at.  A part is an
\* audio/pcm inlineData with data ("audio") or with empty data
\* ("audioNoData"), or anything else ("other"); data is its place in the list.
PartKinds == {"audio", "audioNoData", "other"}
PartSeqs ==
    UNION {[1..n -> PartKinds] : n \in 0..MaxParts}
Parts(kinds) == [i \in 1..Len(kinds) |-> [kind |-> kinds[i], data |-> i]]

NoServerContent ==
    [present |-> FALSE, interrupted |-> FALSE, turnComplete |-> "absent",
     hasModelTurn |-> FALSE, parts |-> <<>>]
ServerContents ==
    {NoServerContent} \cup
    {[present |-> TRUE, interrupted |-> i, turnComplete |-> t,
      hasModelTurn |-> FALSE, parts |-> <<>>] :
        i \in BOOLEAN, t \in {"absent", "true", "false"}} \cup
    {[present |-> TRUE, interrupted |-> i, turnComplete |-> t,
      hasModelTurn |-> TRUE, parts |-> Parts(k)] :
        i \in BOOLEAN, t \in {"absent", "true", "false"}, k \in PartSeqs}
Messages ==
    [toolCall : BOOLEAN, toolCallCancellation : BOOLEAN, setupComplete : BOOLEAN,
     serverContent : ServerContents]
NoMessage ==
    [toolCall |-> FALSE, toolCallCancellation |-> FALSE, setupComplete |-> FALSE,
     serverContent |-> NoServerContent]

\* The guards receive imports from multimodal-live-types: a message is a tool
\* call, a cancellation, a setup completion or a server content when it
\* carries that key.
isToolCallMessage(m) == m.toolCall
isToolCallCancellationMessage(m) == m.toolCallCancellation
isSetupCompleteMessage(m) == m.setupComplete
isServerContenteMessage(m) == m.serverContent.present
\* index.ts:158-165 (the backend's copy of the guards)
isModelTurn(sc) == sc.hasModelTurn
isTurnComplete(sc) == sc.turnComplete # "absent"
isInterrupted(sc) == sc.interrupted

SelectParts(parts, S) == SelectSeq(parts, LAMBDA p : p.kind \in S)

\* multimodal-live-client.ts:191-220: the modelTurn branch
ModelTurnEvents_contentHoldsAllParts(parts) ==
    LET audioParts == SelectParts(parts, {"audio", "audioNoData"})
        withData == SelectParts(audioParts, {"audio"})
        otherParts == SelectParts(parts, {"other"})
    IN [i \in 1..Len(withData) |-> Ev("audio", <<withData[i].data>>)]
       \o (IF otherParts = <<>> THEN <<>> ELSE <<Ev("content", parts)>>)

ModelTurnEvents(parts) ==
    LET audioParts == SelectParts(parts, {"audio", "audioNoData"})
        withData == SelectParts(audioParts, {"audio"})
        otherParts == SelectParts(parts, {"other"})
    IN [i \in 1..Len(withData) |-> Ev("audio", <<withData[i].data>>)]
       \o (IF otherParts = <<>> THEN <<>> ELSE <<Ev("content", otherParts)>>)

\* multimodal-live-client.ts:179-223: the serverContent branch
ServerContentEvents_turnCompleteReturns(sc) ==
    IF isInterrupted(sc) THEN <<Ev("interrupted", <<>>)>>
    ELSE IF isTurnComplete(sc) THEN <<Ev("turncomplete", <<>>)>>
    ELSE IF isModelTurn(sc) THEN ModelTurnEvents(sc.parts)
    ELSE <<>>

ServerContentEvents(sc) ==
    IF isInterrupted(sc)
    THEN <<Ev("interrupted", <<>>)>>
    ELSE (IF isTurnComplete(sc) THEN <<Ev("turncomplete", <<>>)>> ELSE <<>>)
         \o (IF isModelTurn(sc) THEN ModelTurnEvents(sc.parts) ELSE <<>>)

\* multimodal-live-client.ts:157-224: the events receive emits for message m
receive_setupCompleteReturns(m) ==
    IF isToolCallMessage(m) THEN <<Ev("toolcall", <<>>)>>
    ELSE IF isToolCallCancellationMessage(m) THEN <<Ev("toolcallcancellation", <<>>)>>
    ELSE IF isSetupCompleteMessage(m) THEN <<Ev("setupcomplete", <<>>)>>
    ELSE IF isServerContenteMessage(m) THEN ServerContentEvents(m.serverContent)
    ELSE <<>>

receive(m) ==
    IF isToolCallMessage(m) THEN <<Ev("toolcall", <<>>)>>
    ELSE IF isToolCallCancellationMessage(m) THEN <<Ev("toolcallcancellation", <<>>)>>
    ELSE (IF isSetupCompleteMessage(m) THEN <<Ev("setupcomplete", <<>>)>> ELSE <<>>)
         \o (IF isServerContenteMessage(m)
             THEN ServerContentEvents(m.serverContent)
             ELSE <<>>)

ReceiveInit ==
    /\ received = FALSE
    /\ events = <<>>

\* multimodal-live-client.ts:88-94: a message event whose data decodes to inbox
OnMessage ==
    /\ program = "receive"
    /\ ~received
    /\ received' = TRUE
    /\ events' = receive(inbox)
    /\ UNCHANGED <<program, relayVars, downVars, clientVars, inbox, micVars>>

\* ------------------------------------------------------------ upstream to browser

DownInit ==
    /\ nUp = 0
    /\ upLast = [msg |-> 0, m |-> NoMessage]

\* The messages clientWs delivers: index.ts:69, a LiveIncomingMessage is a
\* ServerContentMessage; a message without serverContent is ignored.
UpMessages == {[NoMessage EXCEPT !.serverContent = sc] : sc \in ServerContents}

\* index.ts:471-473: the message sent to the browser for a modelTurn
ModelTurnFrame(id, parts) == [type |-> "modelTurn", msg |-> id, parts |-> parts]

\* index.ts:473: serverWs.send on the module-level serverWs.  It throws
\* while serverWs is unset and drops the data on a closed socket.
SendDown(sent, frame) ==
    IF serverWs # 0 /\ connState[serverWs] = "open"
    THEN [sent EXCEPT ![serverWs] = Append(@, frame)]
    ELSE sent

\* index.ts:448-476: clientWs.on("message") for the message m of rank id
OnUpstreamMessage_noInterruptedCheck(id, m) ==
    IF isServerContenteMessage(m) /\ isModelTurn(m.serverContent)
    THEN SendDown(downSent,
                  ModelTurnFrame(id, SelectParts(m.serverContent.parts,
                                                 {"audio", "audioNoData"})))
    ELSE downSent

OnUpstreamMessage_onlyWithData(id, m) ==
    IF /\ isServerContenteMessage(m)
       /\ ~isInterrupted(m.serverContent)
       /\ isModelTurn(m.serverContent)
    THEN SendDown(downSent,
                  ModelTurnFrame(id, SelectParts(m.serverContent.parts, {"audio"})))
    ELSE downSent

OnUpstreamMessage(id, m) ==
    IF /\ isServerContenteMessage(m)
       /\ ~isInterrupted(m.serverContent)
       /\ isModelTurn(m.serverContent)
    THEN SendDown(downSent,
                  ModelTurnFrame(id, SelectParts(m.serverContent.parts,
                                                 {"audio", "audioNoData"})))
    ELSE downSent

UpstreamMessage(m) ==
    /\ program = "relay"
    /\ upState = "OPEN"
    /\ nUp < MaxUpMessages
    /\ nUp' = nUp + 1
    /\ upLast' = [msg |-> nUp + 1, m |-> m]
    /\ downSent' = OnUpstreamMessage(nUp + 1, m)
    /\ UNCHANGED <<program, clientVars, receiveVars, events, micVars,
                   upState, upSent, connState, serverWs, audioState, pending,
                   utterances, ingested, nextId, nVoiced, nOther, nBatches>>

\* ------------------------------------------------------------ LiveAudioInputManager

Devices == {1, 2}

\* part_000:73-87: the constructor
MicInit ==
    /\ deviceId = 0
    /\ audioContext = 0
    /\ processor = 0
    /\ interval = 0
    /\ procs = <<>>
    /\ closedCtx = {}
    /\ timers = {}
    /\ awaiting = {}
    /\ nMic = 0

\* part_000:145-154: disconnectMicrophone.  While this.processor is false,
\* processor.disconnect() throws and the catch skips audioContext.close();
\* clearInterval runs in every case.
disconnectMicrophone ==
    [procs |-> IF processor = 0 THEN procs
               ELSE [procs EXCEPT ![processor].connected = FALSE],
     closedCtx |-> IF processor = 0 THEN closedCtx ELSE closedCtx \cup {audioContext},
     timers |-> timers \ {interval}]

\* part_000:89-105: connectMicrophone up to await getUserMedia: a new
\* AudioContext and the constraints with the deviceId of that moment
ConnectStart(dev) ==
    /\ nMic' = nMic + 1
    /\ audioContext' = nMic + 1
    /\ awaiting' = awaiting \cup {[call |-> nMic + 1, device |-> dev]}

\* part_000:89-105: the first connectMicrophone call, on the default device
connectMicrophone ==
    /\ program = "mic"
    /\ nMic = 0
    /\ ConnectStart(deviceId)
    /\ UNCHANGED <<notMic, deviceId, processor, interval, procs, closedCtx, timers>>

\* part_000:156-160: updateMicrophoneDevice(dev)
updateMicrophoneDevice(dev) ==
    /\ program = "mic"
    /\ nMic < MaxMicCalls
    /\ deviceId' = dev
    /\ LET d == disconnectMicrophone
       IN /\ procs' = d.procs
          /\ closedCtx' = d.closedCtx
          /\ timers' = d.timers
    /\ ConnectStart(dev)
    /\ UNCHANGED <<notMic, processor, interval>>

\* part_000:105-123: getUserMedia resolves for the call a: a script processor
\* on the current this.audioContext fed by the stream of a's device, and a
\* new recordChunk interval timer
GetUserMediaResolved(a) ==
    /\ program = "mic"
    /\ a \in awaiting
    /\ awaiting' = awaiting \ {a}
    /\ procs' = Append(procs, [ctx |-> audioContext, device |-> a.device,
                               connected |-> TRUE])
    /\ processor' = Len(procs) + 1
    /\ interval' = Len(procs) + 1
    /\ timers' = timers \cup {Len(procs) + 1}
    /\ UNCHANGED <<notMic, deviceId, audioContext, closedCtx, nMic>>

\* part_000:105: getUserMedia rejects for the call a, and so does
\* connectMicrophone
GetUserMediaRejected(a) ==
    /\ program = "mic"
    /\ a \in awaiting
    /\ awaiting' = awaiting \ {a}
    /\ UNCHANGED <<notMic, deviceId, audioContext, processor, interval, procs,
                   closedCtx, timers, nMic>>

MicNext ==
    \/ connectMicrophone
    \/ \E dev \in Devices : updateMicrophoneDevice(dev)
    \/ \E a \in awaiting : GetUserMediaResolved(a)
    \/ \E a \in awaiting : GetUserMediaRejected(a)

InitOf(programs) ==
    /\ program \in programs
    /\ RelayInit
    /\ DownInit
    /\ MicInit
    /\ ClientInit
    /\ ReceiveInit
    /\ inbox \in (IF program = "receive" THEN Messages ELSE {NoMessage})

Init == InitOf({"relay", "client"})
InitRelay == InitOf({"relay"})
InitReceive == InitOf({"receive"})

\* ------------------------------------------------------------ the runs

AllKinds == PcmKinds \cup SkipKinds
OnePcmChunk == {<<k>> : k \in PcmKinds}
TwoChunks == {<<k1, k2>> : k1 \in AllKinds, k2 \in AllKinds}

\* A message of connection c with the chunks kinds arrives, as long as the
\* run stays within maxFrames chunks and the bounds on what they are.
Receive(conns, kindSeqs, maxFrames, maxVoiced) ==
    \E c \in conns : \E kinds \in kindSeqs :
        /\ nextId + Len(kinds) <= maxFrames
        /\ nVoiced + Count(kinds, {"voiced"}) <= maxVoiced
        /\ nOther + (IF c = 1 THEN 0 ELSE Len(kinds)) <= MaxOtherFrames
        /\ nBatches + (IF Len(kinds) > 1 THEN 1 ELSE 0) <= MaxBatches
        /\ ServerMessage(c, kinds)

Transcribed == \E h \in pending : \E hasText \in BOOLEAN : SttDone(h, hasText)

\* One browser connection whose messages overlap: any message may arrive
\* while earlier handlers are suspended in speech-to-text.
VadNext ==
    \/ UpstreamOpen
    \/ UpstreamClose
    \/ ConnOpen(1)
    \/ ConnClose(1)
    \/ Receive({1}, OnePcmChunk \cup TwoChunks, MaxFrames, MaxVoiced)
    \/ Transcribed

SpecVad == InitRelay /\ [][VadNext]_vars

\* Batches of two chunks of which one is skipped.
SkipBatches ==
    {<<k1, k2>> : k1 \in SkipKinds, k2 \in PcmKinds} \cup
    {<<k1, k2>> : k1 \in PcmKinds, k2 \in SkipKinds}

\* One browser connection that sends single frames and batches with a chunk
\* the VAD skips, its handlers overlapping.
SkipNext ==
    \/ UpstreamOpen
    \/ ConnOpen(1)
    \/ Receive({1}, OnePcmChunk \cup SkipBatches, MaxFrames, MaxVoiced)
    \/ Transcribed

SpecSkip == InitRelay /\ [][SkipNext]_vars

\* One browser connection fed one frame at a time: a message arrives only
\* when the handler of the one before it has returned.
SeqNext ==
    \/ UpstreamOpen
    \/ ConnOpen(1)
    \/ (pending = {} /\ Receive({1}, OnePcmChunk, SeqMaxFrames, SeqMaxFrames))
    \/ Transcribed

SpecSeq == InitRelay /\ [][SeqNext]_vars

\* Two browser connections that send single frames, their handlers
\* overlapping.
TwoNext ==
    \/ UpstreamOpen
    \/ UpstreamClose
    \/ \E c \in Conns : ConnOpen(c)
    \/ \E c \in Conns : ConnClose(c)
    \/ Receive(Conns, OnePcmChunk, MaxFrames, MaxVoiced)
    \/ Transcribed

SpecTwo == InitRelay /\ [][TwoNext]_vars

\* One browser connection that sends single frames, its handlers overlapping.
RelayNext ==
    \/ UpstreamOpen
    \/ UpstreamClose
    \/ ConnOpen(1)
    \/ ConnClose(1)
    \/ Receive({1}, OnePcmChunk, MaxFrames, MaxVoiced)
    \/ Transcribed

\* The relay with one connection, or the client.
Next == RelayNext \/ ClientNext

Spec == Init /\ [][Next]_vars

\* The microphone manager of the browser.
InitMic == InitOf({"mic"})

SpecMic == InitMic /\ [][MicNext]_vars

\* receive, on every message within the bounds.
SpecReceive == InitReceive /\ [][OnMessage]_vars

\* The way from upstream to the browser: the relay with one browser connection
\* and the messages upstream sends, or receive on a message.
InitDown == InitOf({"relay", "receive"})

DownNext ==
    \/ UpstreamOpen
    \/ UpstreamClose
    \/ ConnOpen(1)
    \/ ConnClose(1)
    \/ \E m \in UpMessages : UpstreamMessage(m)
    \/ OnMessage

SpecDown == InitDown /\ [][DownNext]_vars

\* ------------------------------------------------------------ the claims

\* seq is n voiced frames followed by m silent ones, and nothing else.
IsRun(seq, n, m) ==
    /\ Len(seq) = n + m
    /\ \A i \in 1..Len(seq) : (seq[i].kind = "voiced") <=> (i <= n)

FrameIds(u) == {u[i].id : i \in 1..Len(u)}
FrameConns(u) == {u[i].conn : i \in 1..Len(u)}

\* C1: fed one at a time from the reset state, k voiced frames (1 <= k <=
\* MIN_VOICE_FRAMES) followed by MIN_SILENCE_FRAMES silent ones hand no
\* utterance to speech-to-text, and audioState is the reset state afterwards.
C1_ShortUtteranceDiscarded ==
    \A k \in 1..MIN_VOICE_FRAMES :
        IsRun(ingested, k, MIN_SILENCE_FRAMES) =>
            /\ utterances = <<>>
            /\ audioState = ResetState

\* C2: fed one at a time from the reset state, n > MIN_VOICE_FRAMES voiced
\* frames followed by MIN_SILENCE_FRAMES silent ones hand exactly one utterance
\* to speech-to-text, none before the last silent frame, and it is all the
\* n + MIN_SILENCE_FRAMES frames in arrival order; once the handler has
\* returned audioState is the reset state.
C2_OneUtterancePerRun ==
    \A n \in (MIN_VOICE_FRAMES + 1)..SeqMaxFrames :
        /\ \A m \in 0..(MIN_SILENCE_FRAMES - 1) :
               IsRun(ingested, n, m) =>
                   /\ utterances = <<>>
                   /\ pending = {}
                   /\ audioState.buffer = ingested
        /\ IsRun(ingested, n, MIN_SILENCE_FRAMES) =>
               /\ utterances = <<ingested>>
               /\ \A i \in 1..Len(ingested) : ingested[i].id = ingested[1].id + i - 1
               /\ pending = {} => audioState = ResetState

C2_Witness ==
    /\ IsRun(ingested, MIN_VOICE_FRAMES + 1, MIN_SILENCE_FRAMES)
    /\ Len(utterances) = 1
    /\ pending = {}

\* C3: no frame is contained in more than one utterance handed to
\* speech-to-text.
C3_NoFrameInTwoUtterances ==
    \A i, j \in 1..Len(utterances) :
        i < j => FrameIds(utterances[i]) \cap FrameIds(utterances[j]) = {}

\* C4: the reset that follows an emission clears exactly the frames that were
\* emitted: when a suspended handler resumes, the buffer still is the
\* utterance it handed to speech-to-text.
C4_ResetClearsOnlyTheEmitted ==
    [][\A h \in pending :
           h \notin pending' => audioState.buffer = utterances[h.utt]]_vars

\* C5: the VAD starts on the frames of a message only when the handlers of all
\* earlier messages have returned.
C5_StrictlySequential ==
    [][(nextId' > nextId /\ ingested' # ingested) => pending = {}]_vars

\* C6: no utterance contains frames of two connections.
C6_NoMixedUtterance ==
    \A i \in 1..Len(utterances) : Cardinality(FrameConns(utterances[i])) <= 1

\* C7: the upstream socket carries the realtimeInput frames of one
\* connection only.
C7_OneClientPerUpstream ==
    \A i, j \in 1..Len(upSent) :
        (upSent[i].type = "realtimeInput" /\ upSent[j].type = "realtimeInput")
            => upSent[i].conn = upSent[j].conn

\* C8: on every upstream socket, the relay's and each of the client's, the
\* first frame transmitted is the setup frame.
C8_SetupIsFirstFrame ==
    /\ upSent # <<>> => upSent[1].type = "setup"
    /\ \A s \in Sockets : sentOn[s] # <<>> => sentOn[s][1] = "setup"

\* A message that arrived before the upstream socket opened was not
\* transmitted, and a later one follows the setup frame.
C8_Witness ==
    /\ Len(upSent) >= 2
    /\ upSent[2].type = "realtimeInput"
    /\ upSent[2].chunks[1].id > 1

\* Some socket of the client has opened and was neither closed by the client
\* nor reported closed by a close event.
ConnectionOpen ==
    \E s \in Sockets :
        socks[s].state \in {"OPEN", "CLOSING"} /\ ~socks[s].closeCalled

\* C9: a send call made while no connection of the client is open (none has
\* opened yet, or each was closed by disconnect() or reported closed by its
\* close event) fails with an error and transmits nothing.
C9_SendFailsWhenNotConnected ==
    [][(sendResult' # "none" /\ ~ConnectionOpen)
           => (sendResult' = "error" /\ sentOn' = sentOn)]_vars

\* A send call failed after a disconnect() closed the connection.
C9_Witness ==
    /\ sendResult = "error"
    /\ \E s \in Sockets : socks[s].closeCalled /\ sentOn[s] # <<>>

\* receive has run on a message whose serverContent carries turnComplete and
\* a modelTurn and is not interrupted.
TurnCompleteWithModelTurn ==
    /\ received
    /\ inbox.serverContent.present
    /\ ~inbox.serverContent.interrupted
    /\ inbox.serverContent.turnComplete # "absent"
    /\ inbox.serverContent.hasModelTurn

EventsOf(types) == SelectSeq(events, LAMBDA e : e.type \in types)
TurnCompleteFirst ==
    \E i \in 1..Len(events) :
        /\ events[i].type = "turncomplete"
        /\ \A j \in 1..Len(events) : events[j].type \in {"audio", "content"} => j > i

\* C10 as stated: for such a message receive emits turncomplete and, when a
\* part of it can be emitted, an audio or content event, turncomplete first.
C10_TurnCompleteAndParts ==
    TurnCompleteWithModelTurn =>
        /\ TurnCompleteFirst
        /\ (\E i \in 1..Len(inbox.serverContent.parts) :
                inbox.serverContent.parts[i].kind \in {"audio", "other"})
               => EventsOf({"audio", "content"}) # <<>>

\* C10 amended: for such a message that carries neither toolCall nor
\* toolCallCancellation, receive emits turncomplete once and first, then one
\* audio event per audio part with data, in the order of the parts, then one
\* content event with the other parts if there are any.
C10_TurnCompleteAndPartsUnlessToolCall ==
    (TurnCompleteWithModelTurn /\ ~inbox.toolCall /\ ~inbox.toolCallCancellation) =>
        LET parts == inbox.serverContent.parts
            audio == SelectSeq(parts, LAMBDA p : p.kind = "audio")
            other == SelectSeq(parts, LAMBDA p : p.kind = "other")
        IN /\ TurnCompleteFirst
           /\ Len(EventsOf({"turncomplete"})) = 1
           /\ Len(EventsOf({"audio"})) = Len(audio)
           /\ \A i \in 1..Len(audio) : EventsOf({"audio"})[i].payload = <<audio[i].data>>
           /\ EventsOf({"content"}) =
                  IF other = <<>> THEN <<>> ELSE <<Ev("content", other)>>
           /\ EventsOf({"audio", "content"}) = EventsOf({"audio"}) \o EventsOf({"content"})

C10_Witness ==
    /\ TurnCompleteWithModelTurn
    /\ ~inbox.toolCall /\ ~inbox.toolCallCancellation
    /\ EventsOf({"turncomplete"}) # <<>>
    /\ EventsOf({"audio"}) # <<>>
    /\ EventsOf({"content"}) # <<>>

ServerContentTypes == {"interrupted", "turncomplete", "audio", "content"}

\* serverContent sc makes receive emit at least one event when it is reached.
EmitsSomething(sc) ==
    \/ sc.interrupted
    \/ sc.turnComplete # "absent"
    \/ \E i \in 1..Len(sc.parts) : sc.parts[i].kind \in {"audio", "other"}

\* The events of the keys present come in the order toolCall,
\* toolCallCancellation, setupComplete, serverContent.
KeyOrder(e) ==
    CASE e.type = "toolcall" -> 1
      [] e.type = "toolcallcancellation" -> 2
      [] e.type = "setupcomplete" -> 3
      [] OTHER -> 4

\* C11 as stated: for a message that carries several of the keys toolCall,
\* toolCallCancellation, setupComplete and serverContent, receive emits an
\* event for every key present, in that order.
C11_OneEventPerKey ==
    received =>
        /\ inbox.toolCall => EventsOf({"toolcall"}) # <<>>
        /\ inbox.toolCallCancellation => EventsOf({"toolcallcancellation"}) # <<>>
        /\ inbox.setupComplete => EventsOf({"setupcomplete"}) # <<>>
        /\ (inbox.serverContent.present /\ EmitsSomething(inbox.serverContent))
               => EventsOf(ServerContentTypes) # <<>>
        /\ \A i, j \in 1..Len(events) : i < j => KeyOrder(events[i]) <= KeyOrder(events[j])

\* C11 amended: a message with toolCall emits toolcall and nothing else; one
\* with toolCallCancellation and no toolCall emits toolcallcancellation and
\* nothing else; one with neither emits setupcomplete if it carries
\* setupComplete and then the events of its serverContent if it carries one.
C11_ToolKeysExclusiveOthersNot ==
    received =>
        /\ inbox.toolCall => [i \in 1..Len(events) |-> events[i].type] = <<"toolcall">>
        /\ (~inbox.toolCall /\ inbox.toolCallCancellation)
               => [i \in 1..Len(events) |-> events[i].type] = <<"toolcallcancellation">>
        /\ (~inbox.toolCall /\ ~inbox.toolCallCancellation) =>
               /\ EventsOf({"toolcall", "toolcallcancellation"}) = <<>>
               /\ Len(EventsOf({"setupcomplete"})) = (IF inbox.setupComplete THEN 1 ELSE 0)
               /\ (inbox.serverContent.present /\ EmitsSomething(inbox.serverContent))
                      => EventsOf(ServerContentTypes) # <<>>
               /\ ~inbox.serverContent.present => EventsOf(ServerContentTypes) = <<>>
               /\ \A i, j \in 1..Len(events) :
                      i < j => KeyOrder(events[i]) <= KeyOrder(events[j])

\* receive has emitted setupcomplete and then events of the serverContent of
\* the same message.
C11_Witness ==
    /\ received
    /\ inbox.setupComplete /\ inbox.serverContent.present
    /\ Len(events) >= 2
    /\ events[1].type = "setupcomplete"
    /\ events[2].type \in ServerContentTypes

\* The relay handles in this step an upstream message.
UpstreamMessageStep == nUp' = nUp + 1

\* C12: a server message whose serverContent is interrupted makes receive emit
\* no turncomplete, audio or content event, and makes the relay send nothing
\* to any browser, whatever else the message carries.
C12_InterruptedStopsProcessing ==
    [][/\ (received' /\ ~received /\ inbox.serverContent.present
              /\ inbox.serverContent.interrupted)
           => \A i \in 1..Len(events') :
                  events'[i].type \notin {"turncomplete", "audio", "content"}
       /\ (UpstreamMessageStep /\ upLast'.m.serverContent.present
              /\ upLast'.m.serverContent.interrupted)
           => downSent' = downSent]_vars

\* An interrupted message that also carries a modelTurn with an audio part
\* reached the relay while a browser was connected.
C12_Witness ==
    /\ upLast.msg > 0
    /\ upLast.m.serverContent.interrupted
    /\ upLast.m.serverContent.hasModelTurn
    /\ \E i \in 1..Len(upLast.m.serverContent.parts) :
           upLast.m.serverContent.parts[i].kind = "audio"
    /\ serverWs # 0 /\ connState[serverWs] = "open"

\* receive has run on a message whose serverContent carries a modelTurn.
ModelTurnReceived ==
    /\ received
    /\ inbox.serverContent.present
    /\ inbox.serverContent.hasModelTurn

PartsOfKind(kinds) ==
    SelectSeq(inbox.serverContent.parts, LAMBDA p : p.kind \in kinds)

\* The audio events carry the data of the parts audio, in their order, and
\* come before any content event; there is one content event with the parts
\* other if there are any, and none otherwise.
AudioThenContent(audio, other) ==
    /\ Len(EventsOf({"audio"})) = Len(audio)
    /\ \A i \in 1..Len(audio) : EventsOf({"audio"})[i].payload = <<audio[i].data>>
    /\ \A i, j \in 1..Len(events) :
           (events[i].type = "content" /\ events[j].type = "audio") => j < i
    /\ Len(EventsOf({"content"})) = (IF other = <<>> THEN 0 ELSE 1)
    /\ other # <<>> => EventsOf({"content"})[1].payload = other

\* C13 as stated: for a modelTurn message receive emits one audio event per
\* audio/pcm part, in part order and before any content event, then one
\* content event with the non-audio parts if there are any.
C13_OneAudioEventPerAudioPart ==
    ModelTurnReceived =>
        AudioThenContent(PartsOfKind({"audio", "audioNoData"}), PartsOfKind({"other"}))

\* C13 amended: for a message without toolCall and toolCallCancellation whose
\* serverContent is a modelTurn that is not interrupted, receive emits one
\* audio event per audio/pcm part that has data, in part order and before any
\* content event, then one content event with the parts that are not
\* audio/pcm, in their order, if there are any.
C13_OneAudioEventPerAudioPartWithData ==
    (ModelTurnReceived /\ ~inbox.toolCall /\ ~inbox.toolCallCancellation
         /\ ~inbox.serverContent.interrupted) =>
        AudioThenContent(PartsOfKind({"audio"}), PartsOfKind({"other"}))

\* A modelTurn whose non-audio part precedes its audio part: the audio event
\* still came first.
C13_Witness ==
    /\ ModelTurnReceived
    /\ Len(inbox.serverContent.parts) = 2
    /\ inbox.serverContent.parts[1].kind = "other"
    /\ inbox.serverContent.parts[2].kind = "audio"
    /\ Len(events) >= 2
    /\ events[Len(events) - 1].type = "audio"
    /\ events[Len(events)].type = "content"

\* C14: every message of a browser is forwarded to the upstream socket when
\* it arrives, once, as the next frame and with all its chunks in order,
\* whatever audioState is and whichever handlers are suspended.
C14_EveryMessageForwardedOnce ==
    [][nextId' > nextId =>
           /\ Len(upSent') = Len(upSent) + 1
           /\ SubSeq(upSent', 1, Len(upSent)) = upSent
           /\ upSent'[Len(upSent')].type = "realtimeInput"
           /\ LET chunks == upSent'[Len(upSent')].chunks
              IN /\ Len(chunks) = nextId' - nextId
                 /\ \A i \in 1..Len(chunks) : chunks[i].id = nextId + i]_vars

PcmOf(chunks) == SelectSeq(chunks, LAMBDA ch : ch.kind \in PcmKinds)

\* The chunks the handlers suspended in pending still have to loop over.
RestOf(hs) == {h.rest : h \in hs}

RelayQuiescent == program = "relay" /\ pending = {}

\* C16: close propagates in both directions: once the relay's handlers have
\* run, a closed browser connection means the upstream socket is no longer
\* connecting or open, and a closed upstream socket means no browser
\* connection is open.
C16_ClosePropagates ==
    RelayQuiescent =>
        /\ (\E c \in Conns : connState[c] = "closed")
               => upState \notin {"CONNECTING", "OPEN"}
        /\ upState = "CLOSED" => \A c \in Conns : connState[c] # "open"

\* C17: audioState is discarded when the browser connection closes: a browser
\* that connects when every earlier connection has closed starts from the
\* reset state, whatever the earlier connections left.
C17_VadStateDiscardedOnClose ==
    [][\A c \in Conns :
           (/\ connState[c] = "none"
            /\ connState'[c] = "open"
            /\ \A d \in Conns \ {c} : connState[d] # "open")
               => audioState' = ResetState]_vars

\* c is the one browser that has connected, and it is connected.
OnlyBrowser(c) ==
    /\ connState[c] = "open"
    /\ \A d \in Conns \ {c} : connState[d] = "none"

AudioPcmParts(parts) ==
    SelectSeq(parts, LAMBDA p : p.kind \in {"audio", "audioNoData"})

\* C18: with one connected browser, the audio/pcm parts of an upstream
\* modelTurn message that is not interrupted are sent to that browser when the
\* message arrives, once, unmodified and in part order, after everything sent
\* for earlier messages; and nothing else adds to what the browser was sent.
C18_AudioPartsRelayedInOrder ==
    [][\A c \in Conns :
           OnlyBrowser(c) =>
               IF /\ UpstreamMessageStep
                  /\ upLast'.m.serverContent.present
                  /\ ~upLast'.m.serverContent.interrupted
                  /\ upLast'.m.serverContent.hasModelTurn
               THEN /\ Len(downSent'[c]) = Len(downSent[c]) + 1
                    /\ SubSeq(downSent'[c], 1, Len(downSent[c])) = downSent[c]
                    /\ downSent'[c][Len(downSent'[c])].msg = upLast'.msg
                    /\ downSent'[c][Len(downSent'[c])].parts
                           = AudioPcmParts(upLast'.m.serverContent.parts)
               ELSE \A i \in 1..Len(downSent'[c]) :
                        downSent'[c][i].type = "modelTurn"
                            => (i <= Len(downSent[c]) /\ downSent[c][i] = downSent'[c][i])]_vars

\* Two upstream messages were relayed to the browser in their order, the
\* first with two audio/pcm parts in part order.
C18_Witness ==
    /\ Len(downSent[1]) = 2
    /\ downSent[1][1].msg = 1 /\ downSent[1][2].msg = 2
    /\ Len(downSent[1][1].parts) = 2
    /\ downSent[1][1].parts[1].data = 1 /\ downSent[1][1].parts[2].data = 2
    /\ downSent[1][2].parts # <<>>

\* The VAD classifies in this step exactly one frame, a silent one.
SilentFrameStep ==
    /\ Len(ingested') = Len(ingested) + 1
    /\ SubSeq(ingested', 1, Len(ingested)) = ingested
    /\ ingested'[Len(ingested')].kind = "silent"

\* C19: a silent frame classified while isRecording is false leaves audioState
\* as it is (and so, from the start, in the reset state) and hands nothing to
\* speech-to-text, however many such frames follow one another.
C19_LeadingSilenceIgnored ==
    [][(SilentFrameStep /\ ~audioState.isRecording) =>
           /\ audioState' = audioState
           /\ ~audioState'.isRecording
           /\ audioState'.buffer = <<>>
           /\ audioState'.silenceCount = 0
           /\ utterances' = utterances
           /\ pending' = pending]_vars

\* Three silent frames and nothing else were classified.
C19_Witness ==
    /\ Len(ingested) = 3
    /\ \A i \in 1..Len(ingested) : ingested[i].kind = "silent"
    /\ audioState = ResetState
    /\ utterances = <<>>

\* The chunks of the realtimeInput frames among frames, in order.
RECURSIVE ForwardedChunks(_)
ForwardedChunks(frames) ==
    IF frames = <<>> THEN <<>>
    ELSE (IF Head(frames).type = "realtimeInput" THEN Head(frames).chunks ELSE <<>>)
         \o ForwardedChunks(Tail(frames))

\* The utterances the chunk loop hands to speech-to-text when it runs over
\* chunks from st and every speech-to-text call returns before the next
\* chunk is looked at.
RECURSIVE SequentialUtterances(_, _)
SequentialUtterances(st, chunks) ==
    LET r == RunChunks(st, chunks, <<>>)
    IN IF r.suspended
       THEN r.emitted \o SequentialUtterances(resetAudioState(r.st), r.rest)
       ELSE <<>>

\* C20: the utterances handed to speech-to-text depend on the sequence of
\* frames only: once every handler has returned, they are the utterances the
\* same frames give when each speech-to-text call returns at once (all the
\* messages having arrived while the upstream socket let the handler run).
C20_UtterancesDependOnFramesOnly ==
    (pending = {} /\ Len(ForwardedChunks(upSent)) = nextId) =>
        utterances = SequentialUtterances(ResetState, ForwardedChunks(upSent))

\* C21: the client holds at most one open socket: every open socket that
\* connect created is the one this.ws refers to.
C21_AtMostOneOpenSocket ==
    \A s \in Sockets : socks[s].state = "OPEN" => cws = s

\* The script processors that capture: connected, on a context that is open.
ActiveProcessors ==
    {i \in 1..Len(procs) : procs[i].connected /\ procs[i].ctx \notin closedCtx}

\* C22: after any sequence of updateMicrophoneDevice calls, also ones made
\* while a connectMicrophone awaits getUserMedia, at most one script processor
\* and at most one recordChunk timer are active, and once no connectMicrophone
\* is awaiting the active processor captures from this.deviceId.
C22_OneCapturePipeline ==
    /\ Cardinality(ActiveProcessors) <= 1
    /\ Cardinality(timers) <= 1
    /\ awaiting = {} => \A i \in ActiveProcessors : procs[i].device = deviceId

\* C23: the transcription of an utterance is sent only to the connection
\* whose frames formed the utterance.
C23_TranscriptionToOriginator ==
    \A c \in Conns : \A i \in 1..Len(downSent[c]) :
        downSent[c][i].type = "transcription"
            => FrameConns(utterances[downSent[c][i].utt]) = {c}

\* The number of silent frames at the end of buf.
RECURSIVE TrailingSilent(_)
TrailingSilent(buf) ==
    IF buf = <<>> \/ buf[Len(buf)].kind # "silent" THEN 0
    ELSE 1 + TrailingSilent(SubSeq(buf, 1, Len(buf) - 1))

\* C24: whenever no handler is suspended in speech-to-text, audioState has
\* silenceCount < MIN_SILENCE_FRAMES; when it is not recording the buffer is
\* empty and silenceCount is 0; when it is recording the buffer is not empty,
\* starts with a voiced frame and ends with silenceCount silent frames.
C24_VadStateInvariant ==
    pending = {} =>
        /\ audioState.silenceCount < MIN_SILENCE_FRAMES
        /\ ~audioState.isRecording =>
               (audioState.buffer = <<>> /\ audioState.silenceCount = 0)
        /\ audioState.isRecording =>
               /\ audioState.buffer # <<>>
               /\ audioState.buffer[1].kind = "voiced"
               /\ audioState.silenceCount = TrailingSilent(audioState.buffer)

\* Recording resumed after an utterance was handed over and its handler
\* returned: the buffer holds voiced frames around silent ones and ends with
\* two silent frames.
C24_Witness ==
    /\ pending = {}
    /\ Len(utterances) = 1
    /\ audioState.isRecording
    /\ Len(audioState.buffer) = 5
    /\ audioState.buffer[2].kind = "silent"
    /\ audioState.buffer[3].kind = "voiced"
    /\ audioState.silenceCount = 2

\* C25: a disconnect(ws) call with a socket that is not this.ws returns false,
\* leaves this.ws as it is and does not touch the current socket; a call with
\* this.ws, or without an argument while this.ws is set, closes the current
\* socket, sets this.ws to null and returns true.
C25_DisconnectOnlyCurrentSocket ==
    [][disconnected'.called =>
           IF disconnected'.ws # 0 /\ disconnected'.ws # cws
           THEN /\ ~disconnected'.result
                /\ cws' = cws
                /\ cws # 0 => socks'[cws] = socks[cws]
           ELSE cws # 0 =>
                    /\ disconnected'.result
                    /\ cws' = 0
                    /\ socks'[cws].closeCalled
                    /\ socks'[cws].state \in {"CLOSING", "CLOSED"}]_vars

\* The close or error event of a stale socket called disconnect while a newer
\* socket was current: the call returned false and the newer socket is open
\* and current.
C25_Witness ==
    /\ disconnected.called
    /\ disconnected.ws # 0
    /\ ~disconnected.result
    /\ cws # 0 /\ cws # disconnected.ws
    /\ socks[cws].state = "OPEN"
    /\ ~socks[cws].closeCalled

====
